---- MODULE Spec2Model ----
(***************************************************************************)
(* Model of the client-side authenticated-request subsystem of             *)
(* front-end/shared/api-connection.js: class EvergrowAPI (credential       *)
(* store, request pipeline, reactive and proactive refresh) and            *)
(* EvergrowFrontend.checkAuth.                                             *)
(*                                                                         *)
(* JavaScript runs the client on one event loop: a handler runs to its     *)
(* next await without interruption, so every action below is the code      *)
(* between two suspension points (a fetch being answered, a timer firing,  *)
(* a page load).  The remote API is external: its answers are chosen       *)
(* nondeterministically.                                                   *)
(***************************************************************************)
EXTENDS Integers, Sequences, FiniteSets, TLC

\* ------------------------------------------------------------------ bounds
NCalls == 2          \* concurrent caller slots
MaxIssued == 2       \* credentials the server issues in one behaviour
MaxTime == 1         \* clock ticks (minutes) the model follows
Horizon == 6         \* minutes a client is followed when its page is never reloaded

\* 5 * 60 * 1000 ms, in minutes
Margin == 5
\* expiry times (minutes) the server stamps on an access credential
Expiries == {6}

CallIds == 1..NCalls

\* ------------------------------------------------------ JavaScript values
Null == [t |-> "null"]
Undefined == [t |-> "undefined"]
Str(s) == [t |-> "string", s |-> s]
Jwt(id, exp) == [t |-> "jwt", id |-> id, exp |-> exp]
Opaque(id) == [t |-> "refresh", id |-> id]

\* JavaScript truthiness of a credential value (if (this.token), && this.refreshToken)
Truthy(v) == v # Null /\ v # Undefined

\* String(v): what localStorage.setItem and a template literal make of a value
JsString(v) ==
    IF v = Null THEN Str("null")
    ELSE IF v = Undefined THEN Str("undefined")
    ELSE v

NoHeader == [scheme |-> "none"]
\* `Bearer ${v}`
Bearer(v) == [scheme |-> "Bearer", cred |-> JsString(v)]

\* JSON.parse(atob(token.split('.')[1])): the payload, or a thrown error
Decodes(v) == v.t = "jwt"

EmptyStorage == [access_token |-> Null, refresh_token |-> Null]

\* --------------------------------------------------------------- responses
NetFail == [net |-> "fail"]
Http(status, json, wellformed, data) ==
    [net |-> "ok", status |-> status, json |-> json, wellformed |-> wellformed,
     data |-> data]
NoData == [message |-> Undefined, error |-> Undefined, access_token |-> Undefined,
           refresh_token |-> Undefined, value |-> Undefined]
Body(fields) == fields @@ NoData
RespOk(r) == r.status >= 200 /\ r.status <= 299

TypeError == [kind |-> "error", name |-> "TypeError", message |-> "Failed to fetch"]
SyntaxError == [kind |-> "error", name |-> "SyntaxError", message |-> "Unexpected token"]
ErrorOf(m) == [kind |-> "error", name |-> "Error", message |-> m]
Ok(v) == [kind |-> "ok", value |-> v]
NoResult == [kind |-> "none"]

\* window.location.pathname is a string; it is kept as the sequence of its
\* separators and names
AppHome == <<"/", "app", "/", "index.html">>

\* server.pid when the file does not exist
NoFile == [exists |-> FALSE, pid |-> 0]

VARIABLES
    token,          \* this.token
    refreshToken,   \* this.refreshToken
    localStorage,   \* the keys access_token and refresh_token; Null = key absent
    nav,            \* window.location.href assigned and not yet followed
    calls,          \* the makeRequest invocations in flight, by caller slot
    completed,      \* the makeRequest invocation that finished last, as it ended
    timer,          \* the setTimeout of setupTokenRefresh and the refresh it starts
    timeouts,       \* the setTimeout callbacks of this page that have yet to run
    now,            \* Date.now(), in minutes
    issued,         \* credentials the server has issued
    burned,         \* refresh credentials carried by a refresh that failed
    pathname,       \* window.location.pathname of the page, as a sequence of symbols
    returned,       \* what the last checkAuth() call returned
    pidFile,        \* server.pid of the control script
    processes,      \* PIDs of the server processes that are running
    launches,       \* how many server processes the script has launched
    said            \* what the script printed last

\* the page the script is loaded on, and the machine the server runs on
page == <<pathname, returned>>
machine == <<pidFile, processes, launches, said>>

vars == <<token, refreshToken, localStorage, nav, calls, completed, timer, timeouts, now,
          issued, burned, page, machine>>

\* a property of a JavaScript object; undefined when the object has none such
Field(v, f) == IF f \in DOMAIN v THEN v[f] ELSE Undefined

\* ------------------------------------------------------- credential store
\* The store as one value: memory, localStorage and the pending navigation.
Cur == [token |-> token, refreshToken |-> refreshToken, ls |-> localStorage, nav |-> nav]

\* setTokens without line 133: the refresh credential is not written to storage
setTokensAccessOnly(s, accessToken, refreshTok) ==
    [s EXCEPT !.token = accessToken,
              !.refreshToken = refreshTok,
              !.ls = [s.ls EXCEPT !.access_token = JsString(accessToken)]]

setTokens(s, accessToken, refreshTok) ==
    [s EXCEPT !.token = accessToken,
              !.refreshToken = refreshTok,
              !.ls = [access_token |-> JsString(accessToken),
                      refresh_token |-> JsString(refreshTok)]]

\* clearTokens without its two removeItem calls
clearTokensKeepsStorage(s) ==
    [s EXCEPT !.token = Null, !.refreshToken = Null]

\* clearTokens without line 138
clearTokensKeepsRefresh(s) ==
    [s EXCEPT !.token = Null, !.ls = EmptyStorage]

\* a clearTokens that removes one key a call: access_token while it is there
clearTokensOneKeyPerCall(s) ==
    [s EXCEPT !.token = Null, !.refreshToken = Null,
              !.ls = IF s.ls.access_token # Null
                     THEN [s.ls EXCEPT !.access_token = Null]
                     ELSE EmptyStorage]

clearTokens(s) ==
    [s EXCEPT !.token = Null, !.refreshToken = Null, !.ls = EmptyStorage]

\* an isAuthenticated that answers validity: the credential decodes and has not expired
isAuthenticatedWhileValid(tok) == Truthy(tok) /\ Decodes(tok) /\ tok.exp > now

isAuthenticated(tok) == Truthy(tok)

\* window.location.href = '/app/auth/login.html'
GoToLogin(s) == [s EXCEPT !.nav = "login"]

\* ------------------------------------------------------- request pipeline
HttpMessage(status) ==
    CASE status = 401 -> "HTTP 401"
      [] status = 500 -> "HTTP 500"
      [] OTHER -> "HTTP"

\* data.message || data.error || 'Request failed'
DataMessage(data) ==
    IF Truthy(data.message) THEN data.message.s
    ELSE IF Truthy(data.error) THEN data.error.s
    ELSE "Request failed"

\* handleResponse that returns the response where it should return its parsed body
handleResponseUnparsed(response) ==
    IF response.json
    THEN IF ~response.wellformed THEN SyntaxError
         ELSE IF ~RespOk(response) THEN ErrorOf(DataMessage(response.data))
         ELSE Ok(response)
    ELSE IF ~RespOk(response) THEN ErrorOf(HttpMessage(response.status))
         ELSE Ok(response)

\* handleResponse: what the call returns (Ok) or throws (an error)
handleResponse(response) ==
    IF response.json
    THEN IF ~response.wellformed THEN SyntaxError
         ELSE IF ~RespOk(response) THEN ErrorOf(DataMessage(response.data))
         ELSE Ok(response.data)
    ELSE IF ~RespOk(response) THEN ErrorOf(HttpMessage(response.status))
         ELSE Ok(response)

\* a catch block of refreshAccessToken that does not rethrow
RefreshFailedSwallowed(s, error) == [s |-> GoToLogin(clearTokens(s)), out |-> Ok(Undefined)]

\* refreshAccessToken from the answer of its fetch on: the store it leaves and
\* what it returns or throws.
RefreshFailed(s, error) == [s |-> GoToLogin(clearTokens(s)), out |-> error]

\* refreshAccessToken without its test of response.ok
refreshAccessTokenNoOkCheck(s, response) ==
    IF response.net = "fail" THEN RefreshFailed(s, TypeError)
    ELSE IF ~response.wellformed THEN RefreshFailed(s, SyntaxError)
    ELSE [s |-> setTokens(s, response.data.access_token, s.refreshToken),
          out |-> Ok(response.data.access_token)]

refreshAccessToken(s, response) ==
    IF response.net = "fail" THEN RefreshFailed(s, TypeError)
    ELSE IF RespOk(response)
    THEN IF ~response.wellformed THEN RefreshFailed(s, SyntaxError)
         ELSE [s |-> setTokens(s, response.data.access_token, s.refreshToken),
               out |-> Ok(response.data.access_token)]
    ELSE RefreshFailed(s, ErrorOf("Token refresh failed"))

\* line 191 testing !response.ok where it should test for status 401
NeedsRefreshOnAnyError(response, refreshTok) ==
    response.net = "ok" /\ ~RespOk(response) /\ Truthy(refreshTok)

\* makeRequest line 191: does this answer start a refresh?
NeedsRefresh(response, refreshTok) ==
    response.net = "ok" /\ response.status = 401 /\ Truthy(refreshTok)

\* ------------------------------------------------- login, register, logout
\* The part of each after its await of makeRequest; res is what makeRequest
\* returned or threw.
login(s, res) ==
    IF res.kind = "ok" /\ Truthy(Field(res.value, "access_token"))
    THEN setTokens(s, res.value.access_token, Field(res.value, "refresh_token"))
    ELSE s

register(s, res) ==
    IF res.kind = "ok" /\ Truthy(Field(res.value, "access_token"))
    THEN setTokens(s, res.value.access_token, Field(res.value, "refresh_token"))
    ELSE s

\* a logout whose clearing sits after the await instead of in a finally block
logoutOnSuccessOnly(s, res) ==
    IF res.kind = "ok" THEN GoToLogin(clearTokens(s)) ELSE s

logout(s, res) == GoToLogin(clearTokens(s))

\* register differs from login in its endpoint alone; the calls are login's
Ops == {"business", "login", "logout"}

\* the caller of makeRequest resumes with res
Resume(op, s, res) ==
    CASE op = "login" -> login(s, res)
      [] op = "register" -> register(s, res)
      [] op = "logout" -> logout(s, res)
      [] OTHER -> s

\* ------------------------------------------------------ proactive refresh
NoTimer == [st |-> "none", at |-> 0, rtok |-> Null]

\* --------------------------------------------------------- getCurrentUserId
\* JSON.parse(atob(token.split('.')[1])) of a credential that decodes
Payload(tok) == [exp |-> tok.exp, sub |-> Str("user")]

\* getCurrentUserId without its try/catch
getCurrentUserIdNoCatch(tok) ==
    IF ~Truthy(tok) THEN Ok(Null)
    ELSE IF Decodes(tok) THEN Ok(Payload(tok).sub)
    ELSE SyntaxError

\* getCurrentUserId: what it returns (Ok) or throws; it reads this.token alone
getCurrentUserId(tok) ==
    IF ~Truthy(tok) THEN Ok(Null)
    ELSE IF Decodes(tok) THEN Ok(Payload(tok).sub)
    ELSE Ok(Null)

\* setupTokenRefresh without its try/catch: the decoding error leaves the constructor
setupTokenRefreshNoCatch(tok, time) ==
    IF Truthy(tok)
    THEN IF Decodes(tok)
         THEN IF tok.exp - Margin > time
              THEN [st |-> "armed", at |-> tok.exp - Margin, rtok |-> Null]
              ELSE NoTimer
         ELSE [st |-> "threw", at |-> 0, rtok |-> Null]
    ELSE NoTimer

setupTokenRefresh(tok, time) ==
    IF Truthy(tok) /\ Decodes(tok) /\ tok.exp - Margin > time
    THEN [st |-> "armed", at |-> tok.exp - Margin, rtok |-> Null]
    ELSE NoTimer

\* a setupTokenRefresh that arms a second callback, at the expiry itself
setTimeoutAlsoAtExpiry(pending, t, tok) ==
    IF t.st = "armed"
    THEN pending \cup {[at |-> t.at, tok |-> tok], [at |-> t.at + Margin, tok |-> tok]}
    ELSE pending

\* setTimeout (lines 242-244), when setupTokenRefresh got as far as t for the
\* credential tok: one more callback is pending, and nothing takes one away
setTimeout(pending, t, tok) ==
    IF t.st = "armed" THEN pending \cup {[at |-> t.at, tok |-> tok]} ELSE pending

\* ------------------------------------------------------------ page load
\* One makeRequest invocation.  pc: where it is suspended; op: who called it;
\* auth1, auth2: the Authorization header of the first dispatch and of the retry;
\* disp, refreshes: the dispatches and refresh calls it has made; rtok: the
\* refresh credential its refresh call carried; ranswer, rout: the answer to
\* that call and what refreshAccessToken made of it;
\* answer: the last answer to a dispatch; result: what it returned or threw.
NoAnswer == [net |-> "none"]
IdleCall == [pc |-> "idle", slot |-> 0, op |-> "business", auth1 |-> NoHeader,
             auth2 |-> NoHeader, disp |-> 0, refreshes |-> 0, rtok |-> Null,
             ranswer |-> NoAnswer, rout |-> NoResult,
             answer |-> NoAnswer, result |-> NoResult]

Init ==
    /\ token = Null
    /\ refreshToken = Null
    /\ localStorage = EmptyStorage
    /\ nav = "none"
    /\ calls = [c \in CallIds |-> IdleCall]
    /\ completed = IdleCall
    /\ timer = setupTokenRefresh(Null, 0)
    /\ timeouts = setTimeout({}, setupTokenRefresh(Null, 0), Null)
    /\ now = 0
    /\ issued = 0
    /\ burned = {}
    /\ pathname = AppHome
    /\ returned = NoResult
    /\ pidFile = NoFile
    /\ processes = {}
    /\ launches = 0
    /\ said = ""

\* ------------------------------------------------------ the remote server
LoginTokens(exp) ==
    Body([access_token |-> Jwt(issued + 1, exp),
          refresh_token |-> Opaque(issued + 1)])

BusinessResponses ==
    { NetFail,
      Http(200, TRUE, TRUE, Body([value |-> Str("payload")])),
      Http(200, FALSE, FALSE, NoData),
      Http(200, TRUE, FALSE, NoData),
      Http(401, TRUE, TRUE, Body([message |-> Str("Unauthorized")])),
      Http(500, TRUE, TRUE, NoData),
      Http(500, FALSE, FALSE, NoData) }

LoginResponses ==
    { NetFail,
      Http(401, TRUE, TRUE, Body([message |-> Str("Invalid credentials")])) }
    \cup (IF issued < MaxIssued
          THEN {Http(200, TRUE, TRUE, LoginTokens(exp)) : exp \in Expiries}
          ELSE {})

LogoutResponses ==
    { NetFail,
      Http(200, TRUE, TRUE, Body([message |-> Str("Logged out")])),
      Http(401, TRUE, TRUE, Body([message |-> Str("Unauthorized")])) }

\* a refresh answer that rotates the refresh credential as well
Rotated(exp) ==
    Body([access_token |-> Jwt(issued + 1, exp), refresh_token |-> Opaque(issued + 1)])

RefreshResponses ==
    { NetFail,
      Http(401, TRUE, TRUE, Body([message |-> Str("Unauthorized")])),
      Http(200, TRUE, FALSE, NoData),
      Http(200, TRUE, TRUE, NoData) }
    \cup (IF issued < MaxIssued
          THEN {Http(200, TRUE, TRUE, Body([access_token |-> Jwt(issued + 1, exp)]))
                  : exp \in Expiries}
               \cup {Http(200, TRUE, TRUE, Rotated(exp)) : exp \in Expiries}
          ELSE {})

Responses(op) ==
    CASE op = "business" -> BusinessResponses
      [] op = "logout" -> LogoutResponses
      [] OTHER -> LoginResponses

\* the answer carries a credential the server has just issued
Issues(response) == response.net = "ok" /\ response.data.access_token.t = "jwt"
\* ---------------------------------------------------------------- actions
Install(s) ==
    /\ token' = s.token
    /\ refreshToken' = s.refreshToken
    /\ localStorage' = s.ls
    /\ nav' = s.nav

\* makeRequest lines 172-180: the Authorization header of the first dispatch
Authorization(tok) == IF Truthy(tok) THEN Bearer(tok) ELSE NoHeader

\* No result is being handed to a caller: the continuation of a makeRequest
\* that ended runs before the event loop takes its next task.
Settled == completed.pc # "done"

\* makeRequest from its call to its first await: the first dispatch
makeRequest(c, op) ==
    /\ Settled
    /\ calls[c].pc = "idle"
    /\ calls' = [calls EXCEPT ![c] = [IdleCall EXCEPT !.pc = "fetch1", !.slot = c,
                                                      !.op = op,
                                                      !.auth1 = Authorization(token),
                                                      !.disp = 1]]
    /\ UNCHANGED <<token, refreshToken, localStorage, nav, completed, timer, timeouts, now, issued,
                   burned>>
    /\ UNCHANGED <<page, machine>>

\* what makeRequest returns or throws for an answer it passes to handleResponse
Outcome(response) == IF response.net = "fail" THEN TypeError ELSE handleResponse(response)

\* makeRequest returns or throws res: the invocation ends and its caller resumes
Finish(c, call, s, res) ==
    /\ completed' = [call EXCEPT !.pc = "done", !.result = res]
    /\ calls' = [calls EXCEPT ![c] = IdleCall]
    /\ Install(Resume(call.op, s, res))

\* makeRequest lines 189-208 with the first answer: start a refresh, or finish
FirstAnswer(c, response) ==
    LET call == calls[c] IN
    /\ Settled
    /\ call.pc = "fetch1"
    /\ response \in Responses(call.op)
    /\ issued' = IF Issues(response) THEN issued + 1 ELSE issued
    /\ IF NeedsRefresh(response, refreshToken)
       THEN /\ calls' = [calls EXCEPT ![c] = [call EXCEPT !.pc = "refreshing",
                                    !.refreshes = call.refreshes + 1,
                                    !.rtok = refreshToken,
                                    !.answer = response]]
            /\ UNCHANGED <<token, refreshToken, localStorage, nav, completed>>
       ELSE Finish(c, [call EXCEPT !.answer = response], Cur, Outcome(response))
    /\ UNCHANGED <<timer, timeouts, now, burned>>
    /\ UNCHANGED <<page, machine>>

\* a refresh that carried the refresh credential rtok has failed
Burn(rtok) == IF rtok.t = "refresh" THEN burned \cup {rtok} ELSE burned

\* lines 192-199 without line 193: the retry goes out with the header of the
\* first dispatch
RefreshAnswerKeepsHeader(c, response) ==
    LET r == refreshAccessToken(Cur, response)
        call == [calls[c] EXCEPT !.ranswer = response, !.rout = r.out]
    IN
    /\ Settled
    /\ call.pc = "refreshing"
    /\ response \in RefreshResponses
    /\ issued' = IF Issues(response) THEN issued + 1 ELSE issued
    /\ IF r.out.kind = "ok"
       THEN /\ calls' = [calls EXCEPT ![c] = [call EXCEPT !.pc = "fetch2",
                                    !.disp = call.disp + 1,
                                    !.auth2 = call.auth1]]
            /\ Install(r.s)
            /\ UNCHANGED <<burned, completed>>
       ELSE /\ Finish(c, call, r.s, r.out)
            /\ burned' = Burn(call.rtok)
    /\ UNCHANGED <<timer, timeouts, now>>
    /\ UNCHANGED <<page, machine>>

\* makeRequest lines 192-199 with the answer of its refresh: retry, or fail
RefreshAnswer(c, response) ==
    LET r == refreshAccessToken(Cur, response)
        call == [calls[c] EXCEPT !.ranswer = response, !.rout = r.out]
    IN
    /\ Settled
    /\ call.pc = "refreshing"
    /\ response \in RefreshResponses
    /\ issued' = IF Issues(response) THEN issued + 1 ELSE issued
    /\ IF r.out.kind = "ok"
       THEN /\ calls' = [calls EXCEPT ![c] = [call EXCEPT !.pc = "fetch2",
                                    !.disp = call.disp + 1,
                                    !.auth2 = Bearer(r.s.token)]]
            /\ Install(r.s)
            /\ UNCHANGED <<burned, completed>>
       ELSE /\ Finish(c, call, r.s, r.out)
            /\ burned' = Burn(call.rtok)
    /\ UNCHANGED <<timer, timeouts, now>>
    /\ UNCHANGED <<page, machine>>

\* a retry that is handled like the first dispatch: a 401 starts another refresh
RetryAnswerRefreshesAgain(c, response) ==
    LET call == calls[c] IN
    /\ Settled
    /\ call.pc = "fetch2"
    /\ response \in Responses(call.op)
    /\ issued' = IF Issues(response) THEN issued + 1 ELSE issued
    /\ IF NeedsRefresh(response, refreshToken)
       THEN /\ calls' = [calls EXCEPT ![c] = [call EXCEPT !.pc = "refreshing",
                                    !.refreshes = call.refreshes + 1,
                                    !.rtok = refreshToken,
                                    !.answer = response]]
            /\ UNCHANGED <<token, refreshToken, localStorage, nav, completed>>
       ELSE Finish(c, [call EXCEPT !.answer = response], Cur, Outcome(response))
    /\ UNCHANGED <<timer, timeouts, now, burned>>
    /\ UNCHANGED <<page, machine>>

\* line 201 as `return retryResponse`: the retry's answer is handed back as it came
RetryAnswerUnhandled(c, response) ==
    LET call == calls[c] IN
    /\ Settled
    /\ call.pc = "fetch2"
    /\ response \in Responses(call.op)
    /\ issued' = IF Issues(response) THEN issued + 1 ELSE issued
    /\ Finish(c, [call EXCEPT !.answer = response], Cur,
              IF response.net = "fail" THEN TypeError ELSE Ok(response))
    /\ UNCHANGED <<timer, timeouts, now, burned>>
    /\ UNCHANGED <<page, machine>>

\* makeRequest line 201 with the answer of the retry
RetryAnswer(c, response) ==
    LET call == calls[c] IN
    /\ Settled
    /\ call.pc = "fetch2"
    /\ response \in Responses(call.op)
    /\ issued' = IF Issues(response) THEN issued + 1 ELSE issued
    /\ Finish(c, [call EXCEPT !.answer = response], Cur, Outcome(response))
    /\ UNCHANGED <<timer, timeouts, now, burned>>
    /\ UNCHANGED <<page, machine>>

\* the setTimeout callback of setupTokenRefresh: refreshAccessToken() is called
TimerFire ==
    /\ Settled
    /\ timer.st = "armed"
    /\ \E t \in timeouts : now >= t.at /\ timeouts' = timeouts \ {t}
    /\ timer' = [st |-> "refreshing", at |-> 0, rtok |-> refreshToken]
    /\ UNCHANGED <<token, refreshToken, localStorage, nav, calls, completed, now, issued, burned>>
    /\ UNCHANGED <<page, machine>>

\* the refresh the timer started is answered; .catch(console.error) drops an error
TimerRefreshAnswer(response) ==
    LET r == refreshAccessToken(Cur, response) IN
    /\ Settled
    /\ timer.st = "refreshing"
    /\ response \in RefreshResponses
    /\ issued' = IF Issues(response) THEN issued + 1 ELSE issued
    /\ Install(r.s)
    /\ burned' = IF r.out.kind = "ok" THEN burned ELSE Burn(timer.rtok)
    /\ timer' = NoTimer
    /\ UNCHANGED <<calls, completed, timeouts, now>>
    /\ UNCHANGED <<page, machine>>

\* the caller has its result
Return ==
    /\ completed.pc = "done"
    /\ completed' = IdleCall
    /\ UNCHANGED <<token, refreshToken, localStorage, nav, calls, timer, timeouts, now, issued,
                   burned>>
    /\ UNCHANGED <<page, machine>>

Tick ==
    /\ Settled
    /\ now < MaxTime
    /\ now' = now + 1
    /\ UNCHANGED <<token, refreshToken, localStorage, nav, calls, completed, timer, timeouts,
                   issued, burned>>
    /\ UNCHANGED <<page, machine>>

\* A page load: the script builds the client over the storage the last page
\* left.  The calls and the timer of the page before are gone with it.
constructor ==
    /\ Settled
    /\ token' = localStorage.access_token
    /\ refreshToken' = localStorage.refresh_token
    /\ timer' = setupTokenRefresh(localStorage.access_token, now)
    /\ timeouts' = setTimeout({}, timer', localStorage.access_token)
    /\ nav' = "none"
    /\ calls' = [c \in CallIds |-> IdleCall]
    /\ completed' = IdleCall
    /\ UNCHANGED <<localStorage, now, issued, burned>>
    /\ UNCHANGED <<page, machine>>

\* ------------------------------------------- a client whose page stays loaded
\* What storage can hold when a page is loaded: nothing, the pair a login stored,
\* or the text setTokens writes for an access_token that was undefined.
StoredSessions ==
    {EmptyStorage}
    \cup {[access_token |-> Jwt(0, exp), refresh_token |-> Opaque(0)] : exp \in Expiries}
    \cup {[access_token |-> JsString(Undefined), refresh_token |-> Opaque(0)]}

\* the client as its constructor leaves it over one of these
RunningInit ==
    \E ls \in StoredSessions :
        /\ token = ls.access_token
        /\ refreshToken = ls.refresh_token
        /\ localStorage = ls
        /\ nav = "none"
        /\ calls = [c \in CallIds |-> IdleCall]
        /\ completed = IdleCall
        /\ timer = setupTokenRefresh(ls.access_token, 0)
        /\ timeouts = setTimeout({}, setupTokenRefresh(ls.access_token, 0), ls.access_token)
        /\ now = 0
        /\ issued = 0
        /\ burned = {}
        /\ pathname = AppHome
        /\ returned = NoResult
        /\ pidFile = NoFile
        /\ processes = {}
        /\ launches = 0
        /\ said = ""

\* the auth endpoint accepts the refresh call and returns an access credential
Accepted(response) ==
    response.net = "ok" /\ RespOk(response) /\ response.wellformed
        /\ Truthy(response.data.access_token)

\* A minute passes.  A callback whose time has come runs first, and the refresh
\* it starts is answered within the minute.
Advance ==
    /\ Settled
    /\ now < Horizon
    /\ timer.st # "refreshing"
    /\ \A t \in timeouts : t.at > now
    /\ now' = now + 1
    /\ UNCHANGED <<token, refreshToken, localStorage, nav, calls, completed, timer, timeouts,
                   issued, burned>>
    /\ UNCHANGED <<page, machine>>

\* a credential the login endpoint issues has its trigger time ahead of it
Timely(response) ==
    Issues(response) => response.data.access_token.exp - Margin > now

\* The page is never reloaded, nobody logs out, and every refresh call is accepted.
RunningNext ==
    \/ \E c \in CallIds, op \in {"business", "login"} : makeRequest(c, op)
    \/ \E c \in CallIds : \E response \in Responses(calls[c].op) :
          Timely(response) /\ FirstAnswer(c, response)
    \/ \E c \in CallIds : \E response \in RefreshResponses :
          Accepted(response) /\ RefreshAnswer(c, response)
    \/ \E c \in CallIds : \E response \in Responses(calls[c].op) :
          Timely(response) /\ RetryAnswer(c, response)
    \/ Return
    \/ TimerFire
    \/ \E response \in RefreshResponses : Accepted(response) /\ TimerRefreshAnswer(response)
    \/ Advance

Running == RunningInit /\ [][RunningNext]_vars

\* ------------------------------ storage that refuses a write, a caller's header
\* localStorage.setItem throws when the quota is exceeded
QuotaExceeded ==
    [kind |-> "error", name |-> "QuotaExceededError", message |-> "exceeded the quota"]

\* which of the two setItem calls of setTokens throws
SetItems == {1, 2}

\* setTokens (lines 130-133) as far as it gets when its k-th setItem throws
setTokensThrows(s, accessToken, refreshTok, k) ==
    [s EXCEPT !.token = accessToken,
              !.refreshToken = refreshTok,
              !.ls = IF k = 1 THEN s.ls
                     ELSE [s.ls EXCEPT !.access_token = JsString(accessToken)]]

\* login lines 53-60 when setTokens throws: the catch block rethrows
loginThrows(s, res, k) ==
    [s |-> setTokensThrows(s, res.value.access_token,
                           Field(res.value, "refresh_token"), k),
     out |-> QuotaExceeded]

\* refreshAccessToken lines 155-167 when setTokens throws: the catch block
\* clears, redirects and rethrows
refreshAccessTokenThrows(s, response, k) ==
    RefreshFailed(setTokensThrows(s, response.data.access_token, s.refreshToken, k),
                  QuotaExceeded)

\* headers the caller may pass in options.headers
CallerHeaders == {NoHeader, [scheme |-> "Bearer", cred |-> Str("caller")]}

\* makeRequest lines 172-188 when options.headers carries the Authorization
\* header h (NoHeader: it carries none)
makeRequestWith(c, op, h) ==
    /\ Settled
    /\ calls[c].pc = "idle"
    /\ calls' = [calls EXCEPT ![c] = [IdleCall EXCEPT !.pc = "fetch1", !.slot = c,
                                                      !.op = op,
                                                      !.auth1 = IF Truthy(token)
                                                                THEN Bearer(token)
                                                                ELSE h,
                                                      !.disp = 1]]
    /\ UNCHANGED <<token, refreshToken, localStorage, nav, completed, timer, timeouts, now, issued,
                   burned>>
    /\ UNCHANGED <<page, machine>>

\* login is answered with credentials and the k-th setItem of its setTokens throws
LoginAnswerThrows(c, response, k) ==
    LET call == [calls[c] EXCEPT !.answer = response]
        r == loginThrows(Cur, Outcome(response), k)
    IN
    /\ Settled
    /\ calls[c].pc = "fetch1"
    /\ calls[c].op = "login"
    /\ response \in Responses(calls[c].op)
    /\ ~NeedsRefresh(response, refreshToken)
    /\ Outcome(response).kind = "ok"
    /\ Truthy(Field(Outcome(response).value, "access_token"))
    /\ issued' = IF Issues(response) THEN issued + 1 ELSE issued
    /\ completed' = [call EXCEPT !.pc = "done", !.result = r.out]
    /\ calls' = [calls EXCEPT ![c] = IdleCall]
    /\ Install(r.s)
    /\ UNCHANGED <<timer, timeouts, now, burned>>
    /\ UNCHANGED <<page, machine>>

\* the refresh call is answered 2xx with a body and the k-th setItem throws
RefreshAnswerThrows(c, response, k) ==
    LET r == refreshAccessTokenThrows(Cur, response, k)
        call == [calls[c] EXCEPT !.ranswer = response, !.rout = r.out]
    IN
    /\ Settled
    /\ calls[c].pc = "refreshing"
    /\ response \in RefreshResponses
    /\ response.net = "ok" /\ RespOk(response) /\ response.wellformed
    /\ issued' = IF Issues(response) THEN issued + 1 ELSE issued
    /\ Finish(c, call, r.s, r.out)
    /\ UNCHANGED <<timer, timeouts, now, burned>>
    /\ UNCHANGED <<page, machine>>

\* One caller, no clock; a setItem may throw and the caller may pass a header.
AdverseNext ==
    \/ \E op \in Ops, h \in CallerHeaders : makeRequestWith(1, op, h)
    \/ \E response \in Responses(calls[1].op) : FirstAnswer(1, response)
    \/ \E response \in RefreshResponses : RefreshAnswer(1, response)
    \/ \E response \in Responses(calls[1].op) : RetryAnswer(1, response)
    \/ \E response \in Responses(calls[1].op), k \in SetItems : LoginAnswerThrows(1, response, k)
    \/ \E response \in RefreshResponses, k \in SetItems : RefreshAnswerThrows(1, response, k)
    \/ Return
    \/ constructor

Adverse == Init /\ [][AdverseNext]_vars

Next ==
    \/ \E c \in CallIds, op \in Ops : makeRequest(c, op)
    \/ \E c \in CallIds : \E response \in Responses(calls[c].op) : FirstAnswer(c, response)
    \/ \E c \in CallIds : \E response \in RefreshResponses : RefreshAnswer(c, response)
    \/ \E c \in CallIds : \E response \in Responses(calls[c].op) : RetryAnswer(c, response)
    \/ Return
    \/ TimerFire
    \/ \E response \in RefreshResponses : TimerRefreshAnswer(response)
    \/ Tick
    \/ constructor

Spec == Init /\ [][Next]_vars

\* The client when the remote side is free never to answer: the clock runs, a
\* callback whose time has come runs, a caller is handed its result, and
\* nothing obliges a fetch to settle (no timer or abort signal is attached to
\* one, lines 145-153, 183-188, 196-199).
Unanswered ==
    Spec /\ SF_vars(Tick) /\ WF_vars(TimerFire) /\ WF_vars(Return)

\* ----------------------------------------------------- the pages of the app
\* bound on the length of a path, in separators and names
MaxPath == 4

Symbols == {"/", "app", "auth"}

\* the paths a page can be served under
Paths ==
    {p \in UNION {[1..n -> Symbols] : n \in 1..MaxPath} : p[1] = "/"}

\* '/auth/', the part of the path checkAuth looks for
AuthDir == <<"/", "auth", "/">>

\* String.prototype.includes
includes(path, part) ==
    \E i \in 1..(Len(path) - Len(part) + 1) : SubSeq(path, i, i + Len(part) - 1) = part

\* checkAuth redirecting whatever the page is
checkAuthOnEveryPage(s, path) ==
    IF ~isAuthenticated(s.token)
    THEN [s |-> GoToLogin(s), out |-> Ok(FALSE)]
    ELSE [s |-> s, out |-> Ok(TRUE)]

\* checkAuth (lines 277-290): the store it leaves and what it returns
checkAuth(s, path) ==
    IF ~isAuthenticated(s.token) /\ ~includes(path, AuthDir)
    THEN [s |-> GoToLogin(s), out |-> Ok(FALSE)]
    ELSE [s |-> s, out |-> Ok(TRUE)]

\* the browser loads the page at path p: its script builds the client over
\* storage (lines 9-16, 271)
Load(p) ==
    /\ p \in Paths
    /\ pathname' = p
    /\ returned' = NoResult
    /\ token' = localStorage.access_token
    /\ refreshToken' = localStorage.refresh_token
    /\ timer' = setupTokenRefresh(localStorage.access_token, now)
    /\ timeouts' = setTimeout({}, timer', localStorage.access_token)
    /\ nav' = "none"
    /\ UNCHANGED <<localStorage, calls, completed, now, issued, burned, machine>>

\* the page-load handler (lines 373-375) calls checkAuth
DOMContentLoaded ==
    /\ returned = NoResult
    /\ returned' = checkAuth(Cur, pathname).out
    /\ Install(checkAuth(Cur, pathname).s)
    /\ UNCHANGED <<pathname, calls, completed, timer, timeouts, now, issued, burned, machine>>

\* '/app/auth/login.html'
LoginPage == <<"/", "app", "/", "auth", "/", "login.html">>

\* the browser follows the assignment to window.location.href
FollowRedirect ==
    /\ nav = "login"
    /\ pathname' = LoginPage
    /\ returned' = NoResult
    /\ token' = localStorage.access_token
    /\ refreshToken' = localStorage.refresh_token
    /\ timer' = setupTokenRefresh(localStorage.access_token, now)
    /\ timeouts' = setTimeout({}, timer', localStorage.access_token)
    /\ nav' = "none"
    /\ UNCHANGED <<localStorage, calls, completed, now, issued, burned, machine>>

PagesInit ==
    \E ls \in StoredSessions, p \in Paths :
        /\ token = ls.access_token
        /\ refreshToken = ls.refresh_token
        /\ localStorage = ls
        /\ nav = "none"
        /\ calls = [c \in CallIds |-> IdleCall]
        /\ completed = IdleCall
        /\ timer = setupTokenRefresh(ls.access_token, 0)
        /\ timeouts = setTimeout({}, setupTokenRefresh(ls.access_token, 0), ls.access_token)
        /\ now = 0
        /\ issued = 0
        /\ burned = {}
        /\ pathname = p
        /\ returned = NoResult
        /\ pidFile = NoFile
        /\ processes = {}
        /\ launches = 0
        /\ said = ""

PagesNext ==
    \/ \E p \in Paths : Load(p)
    \/ DOMContentLoaded
    \/ FollowRedirect

Pages == PagesInit /\ [][PagesNext]_vars

\* ------------------------------------------------- the server control script
\* bound on the server processes the script launches
MaxLaunches == 12

\* $!, the PID of the process the shell has just put in the background
NewPid == launches + 1

\* the client of a behaviour of the script: no page is open
Idle == UNCHANGED <<token, refreshToken, localStorage, nav, calls, completed, timer, timeouts,
                    now, issued, burned, page>>

\* start_server (lines 8-17)
start_server ==
    /\ Idle
    /\ IF pidFile.exists
       THEN /\ said' = "Server already running"
            /\ UNCHANGED <<pidFile, processes, launches>>
       ELSE /\ launches < MaxLaunches
            /\ processes' = processes \cup {NewPid}
            /\ pidFile' = [exists |-> TRUE, pid |-> NewPid]
            /\ launches' = launches + 1
            /\ said' = "Server started"

\* stop_server (lines 19-27): kill fails when no process has the recorded PID,
\* and rm runs only after a kill that succeeded
stop_server ==
    /\ Idle
    /\ IF pidFile.exists
       THEN /\ processes' = processes \ {pidFile.pid}
            /\ pidFile' = IF pidFile.pid \in processes THEN NoFile ELSE pidFile
            /\ said' = "Server stopped"
       ELSE /\ said' = "Server not running."
            /\ UNCHANGED <<pidFile, processes>>
    /\ UNCHANGED launches

\* status_server (lines 29-40)
status_server ==
    /\ Idle
    /\ said' = IF pidFile.exists
               THEN IF pidFile.pid \in processes
                    THEN "Server is running"
                    ELSE "Server PID file exists but process not running."
               ELSE "Server not running."
    /\ UNCHANGED <<pidFile, processes, launches>>

\* a server process ends by itself: run.py fails, or somebody else kills it
Exits(pid) ==
    /\ Idle
    /\ pid \in processes
    /\ processes' = processes \ {pid}
    /\ UNCHANGED <<pidFile, launches, said>>

ServerNext ==
    \/ start_server
    \/ stop_server
    \/ status_server
    \/ \E pid \in processes : Exits(pid)

Server == Init /\ [][ServerNext]_vars

\* The client when the remote side settles every fetch in flight, with a
\* response or with a transport error: the premise under which makeRequest
\* (lines 170-209) and the refresh call inside it (lines 143-168) come to an end.
Settles(c) ==
    \/ \E response \in Responses(calls[c].op) : FirstAnswer(c, response)
    \/ \E response \in RefreshResponses : RefreshAnswer(c, response)
    \/ \E response \in Responses(calls[c].op) : RetryAnswer(c, response)

\* one page, loaded over empty storage, from its load on: nothing reloads it
\* while its calls are in flight, and no timer is armed on it, the constructor
\* (line 15) being the only caller of setupTokenRefresh
PageNext ==
    \/ \E c \in CallIds, op \in Ops : makeRequest(c, op)
    \/ \E c \in CallIds : Settles(c)
    \/ Return

Answered ==
    /\ Init /\ [][PageNext]_vars
    /\ \A c \in CallIds : SF_vars(Settles(c))
    /\ WF_vars(Return)

\* ------------------------------------------------------------- properties
Invocations == {calls[c] : c \in CallIds} \cup {completed}

StatusOf(answer) == IF answer.net = "ok" THEN answer.status ELSE 0

StoreCleared == token = Null /\ refreshToken = Null /\ localStorage = EmptyStorage

\* the refresh call failed: no answer, an error status, or a body that is no JSON
RefreshFailure(answer) ==
    \/ answer.net = "fail"
    \/ answer.net = "ok" /\ (~RespOk(answer) \/ ~answer.wellformed)

RefreshesInFlight ==
    Cardinality({c \in CallIds : calls[c].pc = "refreshing"})
        + (IF timer.st = "refreshing" THEN 1 ELSE 0)

RECURSIVE RefreshCallsBy(_)
RefreshCallsBy(G) ==
    IF G = {} THEN 0
    ELSE LET c == CHOOSE x \in G : TRUE
         IN calls[c].refreshes + RefreshCallsBy(G \ {c})

\* slot c is in flight and its first dispatch, sent with header auth, was answered
\* 401 while a refresh credential was stored
Got401For(c, auth) ==
    /\ calls[c].pc \in {"refreshing", "fetch2"}
    /\ calls[c].auth1 = auth
    /\ Truthy(calls[c].rtok)

\* C1: when two or more calls in flight have all been answered 401 for the same
\* access credential, with a refresh credential stored, one refresh call in
\* total has been made for them.
C1_SingleFlight ==
    \A G \in SUBSET CallIds :
        \A c \in G :
            (/\ Cardinality(G) >= 2
             /\ calls[c].auth1 # NoHeader
             /\ \A d \in G : Got401For(d, calls[c].auth1))
                => RefreshCallsBy(G) = 1

\* C2: at most one refresh call to the auth endpoint is in flight, counting the
\* ones makeRequest starts after a 401 and the one the proactive timer starts.
C2_OneRefreshInFlight == RefreshesInFlight <= 1

\* C3: two calls whose refresh, for the same access and refresh credential, has
\* been answered observe the same outcome: the same new access credential, or
\* the same failure.
C3_SameOutcome ==
    \A c \in CallIds :
        (/\ completed.pc = "done"
         /\ completed.ranswer # NoAnswer
         /\ calls[c].ranswer # NoAnswer
         /\ calls[c].auth1 = completed.auth1
         /\ calls[c].rtok = completed.rtok)
            => calls[c].rout = completed.rout

\* C4: no invocation dispatches more than twice or refreshes more than once, and
\* one whose retry after a successful refresh is answered 401 ends there, with
\* an error.
C4_RetryOnce ==
    /\ \A x \in Invocations : x.disp <= 2 /\ x.refreshes <= 1
    /\ (completed.pc = "done" /\ completed.disp = 2 /\ StatusOf(completed.answer) = 401)
          => /\ completed.result.kind = "error"
             /\ completed.refreshes = 1
             /\ calls[completed.slot].pc = "idle"

C4_Witness ==
    /\ completed.pc = "done"
    /\ completed.disp = 2
    /\ completed.rout.kind = "ok"
    /\ StatusOf(completed.answer) = 401
    /\ completed.result.kind = "error"

\* C5: when a refresh failure is surfaced to the caller of makeRequest, memory and
\* storage hold no credential; and no refresh call that starts carries a refresh
\* credential that a failed refresh carried before.
C5_ClearedWhenSurfaced ==
    (completed.pc = "done" /\ RefreshFailure(completed.ranswer)) => StoreCleared

C5_NoReuse ==
    /\ \A c \in CallIds :
          (calls[c].pc # "refreshing" /\ calls'[c].pc = "refreshing")
              => calls'[c].rtok \notin burned
    /\ (timer.st # "refreshing" /\ timer'.st = "refreshing") => timer'.rtok \notin burned

C5_ClearedBeforeSurfaced == []C5_ClearedWhenSurfaced /\ [][C5_NoReuse]_vars

C5_Witness ==
    /\ completed.pc = "done"
    /\ RefreshFailure(completed.ranswer)
    /\ Cardinality(burned) = 2

\* C6: an invocation whose refresh call failed has dispatched its request once,
\* and has ended with an error.
C6_NoRetryAfterRefreshFailure ==
    \A x \in Invocations :
        RefreshFailure(x.ranswer)
            => x.pc = "done" /\ x.disp = 1 /\ x.result.kind = "error"

C6_Witness ==
    /\ completed.pc = "done"
    /\ RefreshFailure(completed.ranswer)
    /\ completed.op = "business"
    /\ completed.auth1 # NoHeader

\* C7: when the refresh call is answered 401, the store is cleared, the page is
\* sent to the login page, and makeRequest throws Error('Token refresh failed'),
\* which is not the error a transport failure gives.
C7_RefreshRevoked ==
    \A x \in Invocations :
        StatusOf(x.ranswer) = 401
            => /\ x.pc = "done"
               /\ StoreCleared
               /\ nav = "login"
               /\ x.result = ErrorOf("Token refresh failed")
               /\ x.result # Outcome(NetFail)
               /\ x.result # refreshAccessToken(Cur, NetFail).out

C7_Witness ==
    /\ completed.pc = "done"
    /\ StatusOf(completed.ranswer) = 401
    /\ completed.rtok.t = "refresh"

\* C8: a call that carried an access credential and was answered 401 while no
\* refresh credential was stored ends with the store cleared, after one dispatch
\* and no refresh call.
C8_ClearsWithoutRefreshCredential ==
    (/\ completed.pc = "done"
     /\ completed.op = "business"
     /\ completed.auth1 # NoHeader
     /\ StatusOf(completed.answer) = 401
     /\ completed.refreshes = 0)
        => StoreCleared /\ completed.disp = 1 /\ completed.result.kind = "error"

\* a dispatch failed, and not for authorization: no answer, an error status other
\* than 401, or a JSON body that does not parse
NonAuthFailure(answer) ==
    \/ answer.net = "fail"
    \/ /\ answer.net = "ok"
       /\ answer.status # 401
       /\ (~RespOk(answer) \/ (answer.json /\ ~answer.wellformed))

\* C9: an invocation whose first dispatch fails for another reason than
\* authorization ends there with an error (a transport failure with fetch's own
\* error), having made no refresh call; and the step that ends it leaves the
\* stored credentials as they were.
C9_Ends ==
    \A x \in Invocations :
        (x.disp = 1 /\ NonAuthFailure(x.answer))
            => /\ x.pc = "done"
               /\ x.refreshes = 0
               /\ x.result.kind = "error"
               /\ (x.answer = NetFail => x.result = TypeError)

C9_Frame ==
    (/\ completed'.pc = "done"
     /\ completed'.op # "logout"
     /\ completed'.disp = 1
     /\ NonAuthFailure(completed'.answer))
        => /\ token' = token
           /\ refreshToken' = refreshToken
           /\ localStorage' = localStorage
           /\ nav' = nav

C9_NoRetryOnOtherFailure == []C9_Ends /\ [][C9_Frame]_vars

C9_Witness ==
    /\ completed.pc = "done"
    /\ completed.op = "business"
    /\ StatusOf(completed.answer) = 500
    /\ Truthy(token)
    /\ Truthy(refreshToken)

\* the first dispatch succeeded: a 2xx answer whose body, if JSON, parses
Success(answer) ==
    answer.net = "ok" /\ RespOk(answer) /\ (answer.json => answer.wellformed)

\* C10: an invocation whose first dispatch succeeds ends there and returns the
\* parsed body (the response itself when the body is not JSON), having made no
\* refresh call; and the step that ends it leaves memory and storage as they were.
C10_Returns ==
    \A x \in Invocations :
        (x.disp = 1 /\ Success(x.answer))
            => /\ x.pc = "done"
               /\ x.refreshes = 0
               /\ x.result = Ok(IF x.answer.json THEN x.answer.data ELSE x.answer)

C10_Frame ==
    (/\ completed'.pc = "done"
     /\ completed'.op = "business"
     /\ completed'.disp = 1
     /\ Success(completed'.answer))
        => /\ token' = token
           /\ refreshToken' = refreshToken
           /\ localStorage' = localStorage
           /\ nav' = nav

C10_SuccessHasNoSideEffect == []C10_Returns /\ [][C10_Frame]_vars

C10_Witness ==
    /\ completed.pc = "done"
    /\ completed.op = "business"
    /\ completed.disp = 1
    /\ Success(completed.answer)
    /\ completed.auth1 # NoHeader
    /\ Truthy(refreshToken)

\* the refresh call was answered with a new access credential
Refreshed(x) == x.rout.kind = "ok" /\ Truthy(x.ranswer.data.access_token)

\* C11: an invocation whose refresh call returned a new access credential has
\* re-dispatched its request once, with the bearer form of that credential in
\* the Authorization header: not the header that was rejected, and not the text
\* of null or undefined.  Invocations in the other slots, the timer and page
\* loads interleave freely.
C11_RetryCarriesNewCredential ==
    \A x \in Invocations :
        Refreshed(x)
            => /\ x.pc \in {"fetch2", "done"}
               /\ x.disp = 2
               /\ x.auth2 = Bearer(x.ranswer.data.access_token)
               /\ x.auth2 # x.auth1
               /\ x.auth2.cred.t = "jwt"

C11_Witness ==
    /\ completed.pc = "done"
    /\ Refreshed(completed)
    /\ completed.op = "business"
    /\ completed.result.kind = "ok"
    /\ \E c \in CallIds : calls[c].pc = "fetch2" /\ calls[c].auth2 # completed.auth2

TriggerTime(tok) == tok.exp - Margin

\* a step installs an access credential: setTokens stores one, or a page load
\* reads one from storage
Installs == token' # token \/ constructor

\* C13: every step that installs a decodable access credential whose trigger
\* time is in the future leaves a timer pending for that credential at that
\* trigger time.
C13_EveryInstallSchedules ==
    [][(Installs /\ Truthy(token') /\ Decodes(token') /\ TriggerTime(token') > now')
          => [at |-> TriggerTime(token'), tok |-> token'] \in timeouts']_vars

\* a proactive refresh is under way or due: its call is in flight, or a callback
\* is pending whose time has come
RefreshTriggered == timer.st = "refreshing" \/ \E t \in timeouts : t.at <= now

\* C14: a page load that reads from storage a decodable access credential whose
\* trigger time is not after now starts a refresh at once.
C14_PassedMarginRefreshesNow ==
    [][(constructor /\ Truthy(token') /\ Decodes(token') /\ TriggerTime(token') <= now')
          => RefreshTriggered']_vars

\* C15: at most one setTimeout callback of setupTokenRefresh is pending on a page.
C15_OneTimer == Cardinality(timeouts) <= 1

C15_Witness ==
    /\ Cardinality(timeouts) = 1
    /\ \E t \in timeouts : token # t.tok /\ Truthy(token) /\ Decodes(token)
    /\ C15_OneTimer

\* C16: a pending callback does not start a refresh once the access credential
\* it was scheduled for has been replaced by another.
C16_ReplacedCredentialCancelsTimer ==
    [][\A t \in timeouts :
          (t \notin timeouts' /\ timer'.st = "refreshing")
              => ~(Truthy(token) /\ token # t.tok)]_vars

\* the stored pair is the one a login returned: no refresh has replaced its
\* access credential
LoginPairStored ==
    token.t = "jwt" /\ token.id >= 1 /\ refreshToken = Opaque(token.id)

\* C17: on a page that stays loaded and with every refresh call accepted, the
\* access credential a login installed is no longer the stored one when its
\* expiry comes.
C17_ReplacedByExpiry == LoginPairStored => now < token.exp

\* a credential is held that does not decode
Malformed(v) == Truthy(v) /\ ~Decodes(v)

MalformedHeader(h) == h # NoHeader /\ ~Decodes(h.cred)

\* C18: a page load that reads a malformed access credential from storage ends
\* with the client built, no timer and no callback pending, and memory and
\* storage holding what storage held; no callback is ever pending for a
\* malformed credential; and a call sent with a malformed credential that is
\* answered 401 while a refresh credential is stored does not end there: it
\* makes its refresh call.
C18_LoadsQuietly ==
    (constructor /\ Malformed(token'))
        => /\ timer' = NoTimer
           /\ timeouts' = {}
           /\ localStorage' = localStorage
           /\ token' = localStorage.access_token
           /\ refreshToken' = localStorage.refresh_token

C18_NoCallback == \A t \in timeouts : ~Malformed(t.tok)

C18_StillReactive ==
    \A c \in CallIds :
        (/\ calls[c].pc = "fetch1"
         /\ MalformedHeader(calls[c].auth1)
         /\ Truthy(refreshToken)
         /\ calls'[c].pc # "fetch1"
         /\ ~constructor)
            => \/ /\ calls'[c].pc = "refreshing"
                  /\ calls'[c].refreshes = 1
                  /\ calls'[c].rtok = refreshToken
               \/ /\ completed'.pc = "done"
                  /\ StatusOf(completed'.answer) # 401

C18_MalformedDisablesSchedulingOnly ==
    [](C18_NoCallback /\ timer.st # "threw")
        /\ [][C18_LoadsQuietly /\ C18_StillReactive]_vars

C18_Witness ==
    /\ completed.pc = "done"
    /\ MalformedHeader(completed.auth1)
    /\ ~Malformed(token)
    /\ Refreshed(completed)
    /\ completed.disp = 2
    /\ completed.result.kind = "ok"
    /\ timeouts = {}

\* a credential is held: a value other than null and undefined
Present(v) == v.t \in {"jwt", "string", "refresh"}

\* C19: isAuthenticated() is true exactly when an access credential is held,
\* expired or not, decodable or not; and it is true right after a step that
\* installs a decodable access credential.
C19_PresenceNotValidity ==
    [](isAuthenticated(token) <=> Present(token))
        /\ [][(token' # token /\ Decodes(token')) => isAuthenticated(token')]_vars

C19_Witness ==
    /\ Decodes(token)
    /\ now >= token.exp
    /\ isAuthenticated(token)
    /\ LoginPairStored

\* the store holds nothing: isAuthenticated() is false, neither field holds a
\* credential, neither key is in storage
HoldsNothing(s) ==
    /\ ~isAuthenticated(s.token)
    /\ ~Present(s.token)
    /\ ~Present(s.refreshToken)
    /\ s.ls.access_token = Null
    /\ s.ls.refresh_token = Null

\* a step in which clearTokens ran last: a logout ended, or a refresh failed
Clears ==
    \/ completed.pc # "done" /\ completed'.pc = "done" /\ completed'.op = "logout"
    \/ completed.pc # "done" /\ completed'.pc = "done" /\ RefreshFailure(completed'.ranswer)
    \/ timer.st = "refreshing" /\ timer'.st = "none" /\ nav' = "login" /\ burned' # burned

\* C20: clearTokens, applied to the store of any reachable state, leaves a store
\* that holds nothing; and so is the store after every step that ends in
\* clearTokens.
C20_ClearedStoreHoldsNothing ==
    [](HoldsNothing(clearTokens(Cur))) /\ [][Clears => HoldsNothing(Cur')]_vars

C20_Witness ==
    /\ completed.pc = "done"
    /\ completed.op = "logout"
    /\ completed.auth1 # NoHeader
    /\ HoldsNothing(Cur)
    /\ \E c \in CallIds : calls[c].pc = "refreshing" /\ Present(calls[c].rtok)

\* a step in which clearTokens runs twice in a row: the refresh of a logout
\* request fails (lines 164, 72)
ClearsTwice ==
    /\ completed.pc # "done"
    /\ completed'.pc = "done"
    /\ completed'.op = "logout"
    /\ RefreshFailure(completed'.ranswer)

\* C21: clearTokens applied twice to the store of any reachable state leaves
\* what one application leaves, in memory and in storage; and the step in which
\* the code calls it twice in a row leaves what one call leaves.
C21_ClearIsIdempotent ==
    [](clearTokens(clearTokens(Cur)) = clearTokens(Cur))
        /\ [][ClearsTwice => Cur' = GoToLogin(clearTokens(Cur))]_vars

C21_Witness ==
    /\ completed.pc = "done"
    /\ completed.op = "logout"
    /\ RefreshFailure(completed.ranswer)
    /\ Present(completed.rtok)
    /\ HoldsNothing(Cur)

\* the pair a restart would read from storage
StoredPair(ls) == <<ls.access_token, ls.refresh_token>>

\* C22: no step leaves a half-updated pair to a reader.  Memory holds after the
\* step the pair it held before or one installed whole, and storage, which a
\* restart reads, holds the pair it held before, the pair memory now holds, or
\* nothing.
C22_PairUpdatedWhole ==
    [][StoredPair(localStorage') \in
          { StoredPair(localStorage),
            StoredPair(EmptyStorage),
            <<JsString(token'), JsString(refreshToken')>> }]_vars

\* the answer carries credentials for login to install
CarriesCredentials(answer) ==
    Success(answer) /\ answer.json /\ Truthy(answer.data.access_token)

\* C23: whether or not storage takes the writes, a login answered with
\* credentials ends without an error and with those credentials in memory, and
\* a refresh call answered with an access credential does not fail.
C23_PersistenceIsBestEffort ==
    /\ (completed.pc = "done" /\ completed.op = "login" /\ CarriesCredentials(completed.answer))
          => /\ completed.result.kind = "ok"
             /\ token = completed.answer.data.access_token
             /\ refreshToken = completed.answer.data.refresh_token
    /\ \A x \in Invocations :
          (x.ranswer.net = "ok" /\ Accepted(x.ranswer)) => x.rout.kind = "ok"

\* memory holds an access and a refresh credential
HoldsPair == Present(token) /\ Present(refreshToken)

\* C24: while the client holds a pair of credentials, storage holds that pair,
\* and a page load over that storage builds a client that holds exactly that
\* pair; a page load after the store was cleared builds a client that holds no
\* credential and is not authenticated.
C24_Mirrored == HoldsPair => StoredPair(localStorage) = <<token, refreshToken>>

C24_Reload ==
    /\ (constructor /\ HoldsPair) => token' = token /\ refreshToken' = refreshToken
    /\ (constructor /\ StoreCleared)
          => token' = Null /\ refreshToken' = Null /\ ~isAuthenticated(token')

C24_RestartRoundTrip == []C24_Mirrored /\ [][C24_Reload]_vars

C24_Witness ==
    /\ HoldsPair
    /\ Decodes(token)
    /\ timer.st = "armed"
    /\ \E t \in timeouts : t.tok = token
    /\ token.id = 2

\* C25: a page load over storage that lacks one of the two keys builds a client
\* for which isAuthenticated() is false.
C25_HalfStoredIsUnauthenticated ==
    [][(/\ constructor
        /\ (localStorage.access_token = Null \/ localStorage.refresh_token = Null))
          => ~isAuthenticated(token')]_vars

\* C26: in every reachable state getCurrentUserId() returns and does not throw:
\* the subject of the access credential when it decodes, null when none is
\* held or the one held is malformed.
C26_UserIdNeverRaises ==
    LET r == getCurrentUserId(token) IN
    /\ r.kind = "ok"
    /\ Decodes(token) => r.value = Str("user")
    /\ Malformed(token) => r.value = Null
    /\ ~Present(token) => r.value = Null

C26_Witness ==
    /\ Malformed(token)
    /\ Present(refreshToken)
    /\ getCurrentUserId(token) = Ok(Null)
    /\ \E c \in CallIds : calls[c].pc = "refreshing" /\ MalformedHeader(calls[c].auth1)

\* C27: the step that dispatches the logout request leaves the store as it was
\* and sends the request under the access credential held; and when logout's
\* makeRequest has ended, with a result or with any error, the store is cleared
\* and the page is sent to the login page.
C27_Dispatch ==
    \A c \in CallIds :
        (calls[c].pc = "idle" /\ calls'[c].pc = "fetch1" /\ calls'[c].op = "logout")
            => /\ Cur' = Cur
               /\ calls'[c].auth1 = Authorization(token)
               /\ (Present(token) => calls'[c].auth1 = Bearer(token))

C27_Cleared ==
    (completed.pc = "done" /\ completed.op = "logout") => StoreCleared /\ nav = "login"

C27_LogoutNotifiesThenClears == []C27_Cleared /\ [][C27_Dispatch]_vars

C27_Witness ==
    /\ completed.pc = "done"
    /\ completed.op = "logout"
    /\ completed.auth1 # NoHeader
    /\ completed.result = TypeError
    /\ StoreCleared

\* the invocation in slot c waits for an answer: to a dispatch or to its refresh call
Waiting(c) == calls[c].pc \in {"fetch1", "refreshing", "fetch2"}

\* C28: an invocation that waits for an answer ends, answered or not.
C28_BoundedWait == \A c \in CallIds : Waiting(c) ~> ~Waiting(c)

\* C29: an invocation whose refresh call was answered, but not with a success
\* status and a body carrying an access credential, has ended with an error
\* after its one dispatch, and the store is cleared.
C29_NonCleanRefreshFails ==
    \A x \in Invocations :
        (x.ranswer.net = "ok" /\ ~Accepted(x.ranswer))
            => /\ x.pc = "done"
               /\ x.disp = 1
               /\ x.result.kind = "error"
               /\ StoreCleared

\* the Authorization header that the pipeline owes a dispatch made while tok is
\* the stored access credential
OwedHeader(tok) == IF Present(tok) THEN Bearer(tok) ELSE NoHeader

\* C30: every dispatch, first or retry, goes out with the bearer form of the
\* access credential stored at that moment, whatever header the caller passed,
\* and with no Authorization header when none is stored.
C30_PipelineOwnsHeader ==
    [][\A c \in CallIds :
          calls'[c].disp > calls[c].disp
              => (IF calls'[c].disp = 1 THEN calls'[c].auth1 ELSE calls'[c].auth2)
                    = OwedHeader(token')]_vars

\* C31: when every fetch is eventually settled, every makeRequest invocation
\* comes to an end, with a result or with an error, having dispatched at most
\* twice and called the refresh endpoint at most once.
C31_EveryCallCompletes ==
    \A c \in CallIds :
        (calls[c].pc = "fetch1")
            ~> (/\ completed.pc = "done"
                /\ completed.slot = c
                /\ completed.result.kind \in {"ok", "error"}
                /\ completed.disp <= 2
                /\ completed.refreshes <= 1)

C31_Witness ==
    /\ completed.pc = "done"
    /\ completed.disp = 2
    /\ completed.refreshes = 1
    /\ completed.result.kind = "ok"

\* C32: once the store has been cleared, by a logout or by a failed refresh, the
\* answer to a call that was already in flight does not install an access
\* credential again; one appears again only as a login completes with success.
C32_ClearedUntilLogin ==
    [][(StoreCleared /\ Present(token'))
          => (/\ completed'.pc = "done"
              /\ completed'.op = "login"
              /\ completed'.result.kind = "ok")]_vars

\* C33: a refresh call is sent only with a refresh credential: neither the one
\* makeRequest starts nor the one the timer starts carries an absent one.
C33_RefreshCarriesCredential ==
    /\ \A c \in CallIds : calls[c].pc = "refreshing" => Present(calls[c].rtok)
    /\ timer.st = "refreshing" => Present(timer.rtok)

Agrees(held, stored) == IF Present(held) THEN stored = held ELSE stored = Null

\* C34: what memory holds is what storage holds: each credential held is the
\* stored value of its key, and a credential not held has no key in storage.
C34_MemoryAgreesWithStorage ==
    /\ Agrees(token, localStorage.access_token)
    /\ Agrees(refreshToken, localStorage.refresh_token)

\* C35: from an empty store on, the pair is whole: an access credential is
\* held exactly when a refresh credential is.
C35_PairIsWhole ==
    Present(token) <=> Present(refreshToken)

\* a refresh call of slot c, or of the timer, is answered with success
RefreshSucceeds(c) == calls[c].pc = "refreshing" /\ calls'[c].pc = "fetch2"
TimerRefreshSucceeds == timer.st = "refreshing" /\ timer'.st # "refreshing" /\ nav' = nav

\* C36: a refresh that succeeds leaves as refresh credential, in memory and in
\* storage, the one its request carried, whatever its answer holds.
C36_RefreshKeepsSentCredential ==
    [][/\ \A c \in CallIds :
             RefreshSucceeds(c) => /\ refreshToken' = calls[c].rtok
                                   /\ localStorage'.refresh_token = calls[c].rtok
       /\ TimerRefreshSucceeds => /\ refreshToken' = timer.rtok
                                  /\ localStorage'.refresh_token = timer.rtok]_vars

\* the login call of slot c is answered and the answer is a failure: it ends
\* with an error, or it is a 401 that line 191 takes for an expired credential
LoginFails(c) ==
    /\ calls[c].op = "login"
    /\ calls[c].pc = "fetch1"
    /\ \/ calls'[c].pc = "refreshing"
       \/ completed'.pc = "done" /\ completed'.slot = c /\ completed'.result.kind = "error"

\* C37: a login that fails, on an error response or on a transport error, leaves
\* the store as it was and starts no refresh call; a login installs credentials
\* only from an answer that carries an access credential.
C37_FailedLoginChangesNothing ==
    [][/\ \A c \in CallIds :
             LoginFails(c) => /\ calls'[c].pc # "refreshing"
                              /\ token' = token
                              /\ refreshToken' = refreshToken
                              /\ localStorage' = localStorage
       /\ (/\ completed'.pc = "done"
           /\ completed'.op = "login"
           /\ completed.pc # "done"
           /\ <<token, refreshToken, localStorage>>' # <<token, refreshToken, localStorage>>)
              => completed'.result.kind = "ok"
                 /\ Truthy(Field(completed'.result.value, "access_token"))]_vars

\* C38: checkAuth() returns false and sends the browser to the login page
\* exactly when no access credential is held and the path of the page does not
\* contain '/auth/'; in every other case it returns true and leaves the page.
C38_CheckAuth ==
    returned # NoResult =>
        IF ~Present(token) /\ ~includes(pathname, AuthDir)
        THEN returned = Ok(FALSE) /\ nav = "login"
        ELSE returned = Ok(TRUE) /\ nav = "none"

C38_Witness ==
    /\ returned = Ok(TRUE)
    /\ ~Present(token)
    /\ includes(pathname, AuthDir)
    /\ nav = "none"

\* C39: the script launches a server only when there is no PID file, and once
\* stop has run there is no PID file, so that the start that follows launches
\* one, also when the recorded process had ended before stop ran.
C39_StartAfterStopLaunches ==
    [][/\ launches' # launches => ~pidFile.exists
       /\ stop_server => ~pidFile'.exists]_vars

====
